---------------------------- MODULE Spec2Model ----------------------------
(***************************************************************************)
(* The researcher tool of obsidian_llm_suite: planning (stage 1), the plan *)
(* schema's validation, and the recursive creation of hierarchical notes   *)
(* (stage 2), as the state machine that src/tools/researcher/main.py runs. *)
(*                                                                         *)
(* Strings whose characters matter (titles, basenames, file paths) are     *)
(* sequences of one-character strings; ids are opaque strings.  Python's   *)
(* None is the string None for parent_id and the empty sequence for an     *)
(* optional name (the code only ever tests those for truthiness).          *)
(***************************************************************************)
EXTENDS Integers, Sequences, FiniteSets, TLC

VARIABLES
    candidate,           \* the JSON the planning model answered with (list of notes)
    required_root_name,  \* main's required_root_file_name (<<>>: not given)
    pc,                  \* position of main()
    research_plan,       \* plan_research_structure's return value (a list)
    plan_ok,             \* FALSE: plan_research_structure returned None
    plan_error,          \* what rejected the candidate ("ok" when accepted)
    warnings,            \* warnings logged by plan_research_structure
    stack,               \* activation records of _create_note_file, innermost last
    created_files,       \* created_files: id -> [filepath, basename]
    processed_notes,     \* processed_notes: set of ids
    files,               \* the output directory: filepath -> [text written; and, as
                         \* history, the id it was written for and the ids listed]
    events,              \* history: the content-generation and write_file calls,
                         \* in the order they were made
    root_file_info,      \* what the root call returned
    result_path,         \* generate_hierarchical_notes' return value (<<>>: None)
    faults               \* failures injected so far

vars == <<candidate, required_root_name, pc, research_plan, plan_ok, plan_error,
          warnings, stack, created_files, processed_notes, files, events,
          root_file_info, result_path, faults>>

--------------------------------------------------------------------------
(* Bounds of the model *)

\* at most this many failing content generations and writes in one run
MaxFaults == 2

\* the answer's title replacement falls on one of its first MaxRetitled notes
MaxRetitled == 3

(* Program constants *)
MaxFilenameLen == 100
MinLevelDepth == 2
MaxLevelDepth == 4
MinNotes == 10
MaxNotes == 15
PlanMinDepth == 3
PlanMaxDepth == 5
PlanMinNotes == 10
PlanMaxNotes == 15

None == "None"
NoName == <<>>

--------------------------------------------------------------------------
(* Strings *)

\* the characters of the model, by increasing code point
Alphabet == <<" ", "/", "2", ":", "?", "_", "a", "b", "c", "d", "e", "f", "g",
              "h", "i", "j", "k", "l", "m", "n", "o", "p", "r", "x">>

Ord(c) == CHOOSE i \in 1..Len(Alphabet) : Alphabet[i] = c

Min2(a, b) == IF a <= b THEN a ELSE b

\* Python's str < str: lexicographic by code point, a proper prefix is smaller
RECURSIVE StrLess(_, _)
StrLess(s, t) ==
    IF t = <<>> THEN FALSE
    ELSE IF s = <<>> THEN TRUE
    ELSE IF Head(s) # Head(t) THEN Ord(Head(s)) < Ord(Head(t))
    ELSE StrLess(Tail(s), Tail(t))

InvalidFilenameChars == {"\\", "/", "*", "?", ":", "\"", "<", ">", "|"}

RECURSIVE RemoveInvalid(_)
RemoveInvalid(s) ==
    IF s = <<>> THEN <<>>
    ELSE IF Head(s) \in InvalidFilenameChars THEN RemoveInvalid(Tail(s))
    ELSE <<Head(s)>> \o RemoveInvalid(Tail(s))

SpacesToUnderscores(s) == [i \in 1..Len(s) |-> IF s[i] = " " THEN "_" ELSE s[i]]

sanitize_filename(text) ==
    LET cleaned == SpacesToUnderscores(RemoveInvalid(text))
    IN SubSeq(cleaned, 1, Min2(Len(cleaned), MaxFilenameLen))

format_obsidian_link(note_title) == <<"[", "[">> \o note_title \o <<"]", "]">>

OutputDir == <<"o">>

\* the file path without the extension
FilepathNoExtension(basename) == OutputDir \o <<"/">> \o basename

\* os.path.join(self.output_dir, f"{current_basename}.md")
Filepath(basename) == OutputDir \o <<"/">> \o basename \o <<".", "m", "d">>

--------------------------------------------------------------------------
(* The plan schema: ResearchNote and ResearchStructure *)

SeqToSet(s) == {s[i] : i \in 1..Len(s)}

Ids(notes) == [i \in 1..Len(notes) |-> notes[i].id]

\* ResearchNote.id_must_be_valid
IdIsValid(v) == v \notin {"", " "}

\* ResearchNote.level_must_be_non_negative
LevelIsValid(v) == v >= 0

FieldsValid(notes) ==
    \A i \in 1..Len(notes) : IdIsValid(notes[i].id) /\ LevelIsValid(notes[i].level)

UniqueIds(notes) == Cardinality(SeqToSet(Ids(notes))) = Len(notes)

ParentsResolve(notes) ==
    \A i \in 1..Len(notes) :
        notes[i].parent_id # None => notes[i].parent_id \in SeqToSet(Ids(notes))

HasRoot(notes) == \E i \in 1..Len(notes) : notes[i].parent_id = None

\* next((p for p in notes if p.id == note.parent_id), None): the first match
ParentOf(notes, note) ==
    LET hits == {j \in 1..Len(notes) : notes[j].id = note.parent_id}
    IN notes[CHOOSE j \in hits : \A k \in hits : j <= k]

HasParent(notes, note) == \E j \in 1..Len(notes) : notes[j].id = note.parent_id

\* the level check asking of a non-root note only that its level is not
\* below its parent's
LevelOkNotBelowParent(notes, note) ==
    IF note.parent_id = None THEN note.level = 0
    ELSE HasParent(notes, note) => note.level >= ParentOf(notes, note).level

\* the level check applied to root notes only
LevelOkRootsOnly(notes, note) == note.parent_id = None => note.level = 0

LevelOk(notes, note) ==
    IF note.parent_id = None THEN note.level = 0
    ELSE HasParent(notes, note) => note.level = ParentOf(notes, note).level + 1

LevelsConsistent(notes) == \A i \in 1..Len(notes) : LevelOk(notes, notes[i])

MaxLevel(notes) ==
    CHOOSE m \in {notes[i].level : i \in 1..Len(notes)} :
        \A i \in 1..Len(notes) : notes[i].level <= m

\* validate_structure without its checks for a root and for the levels
ValidateStructureNoRootNoLevels(notes) ==
    IF ~FieldsValid(notes) THEN "field"
    ELSE IF notes = <<>> THEN "empty"
    ELSE IF ~UniqueIds(notes) THEN "duplicate_id"
    ELSE IF ~ParentsResolve(notes) THEN "dangling_parent"
    ELSE IF MaxLevel(notes) < MinLevelDepth THEN "too_shallow"
    ELSE IF MaxLevel(notes) > MaxLevelDepth THEN "too_deep"
    ELSE IF Len(notes) < MinNotes THEN "too_few"
    ELSE IF Len(notes) > MaxNotes THEN "too_many"
    ELSE "ok"

\* validate_structure without its check for unique ids
ValidateStructureNoUniqueIds(notes) ==
    IF ~FieldsValid(notes) THEN "field"
    ELSE IF notes = <<>> THEN "empty"
    ELSE IF ~ParentsResolve(notes) THEN "dangling_parent"
    ELSE IF ~HasRoot(notes) THEN "no_root"
    ELSE IF ~LevelsConsistent(notes) THEN "child_level"
    ELSE IF MaxLevel(notes) < MinLevelDepth THEN "too_shallow"
    ELSE IF MaxLevel(notes) > MaxLevelDepth THEN "too_deep"
    ELSE IF Len(notes) < MinNotes THEN "too_few"
    ELSE IF Len(notes) > MaxNotes THEN "too_many"
    ELSE "ok"

\* validate_structure checking the levels before it looks for a root
ValidateStructureLevelsBeforeRoot(notes) ==
    IF ~FieldsValid(notes) THEN "field"
    ELSE IF notes = <<>> THEN "empty"
    ELSE IF ~UniqueIds(notes) THEN "duplicate_id"
    ELSE IF ~ParentsResolve(notes) THEN "dangling_parent"
    ELSE IF ~LevelsConsistent(notes) THEN
        LET bad == CHOOSE i \in 1..Len(notes) :
                       /\ ~LevelOk(notes, notes[i])
                       /\ \A j \in 1..(i - 1) : LevelOk(notes, notes[j])
        IN IF notes[bad].parent_id = None THEN "root_level" ELSE "child_level"
    ELSE IF ~HasRoot(notes) THEN "no_root"
    ELSE IF MaxLevel(notes) < MinLevelDepth THEN "too_shallow"
    ELSE IF MaxLevel(notes) > MaxLevelDepth THEN "too_deep"
    ELSE IF Len(notes) < MinNotes THEN "too_few"
    ELSE IF Len(notes) > MaxNotes THEN "too_many"
    ELSE "ok"

\* ResearchStructure.validate_structure, with the field validators that run
\* before it: the first check that raises, "ok" when none does
ValidateStructure(notes) ==
    IF ~FieldsValid(notes) THEN "field"
    ELSE IF notes = <<>> THEN "empty"
    ELSE IF ~UniqueIds(notes) THEN "duplicate_id"
    ELSE IF ~ParentsResolve(notes) THEN "dangling_parent"
    ELSE IF ~HasRoot(notes) THEN "no_root"
    ELSE IF ~LevelsConsistent(notes) THEN
        LET bad == CHOOSE i \in 1..Len(notes) :
                       /\ ~LevelOk(notes, notes[i])
                       /\ \A j \in 1..(i - 1) : LevelOk(notes, notes[j])
        IN IF notes[bad].parent_id = None THEN "root_level" ELSE "child_level"
    ELSE IF MaxLevel(notes) < MinLevelDepth THEN "too_shallow"
    ELSE IF MaxLevel(notes) > MaxLevelDepth THEN "too_deep"
    ELSE IF Len(notes) < MinNotes THEN "too_few"
    ELSE IF Len(notes) > MaxNotes THEN "too_many"
    ELSE "ok"

\* the warnings plan_research_structure logs for a validated structure
PlanWarnings(notes) ==
    LET hierarchy_depth == IF notes # <<>> THEN MaxLevel(notes) ELSE 0
    IN  (IF Len(notes) < PlanMinNotes \/ Len(notes) > PlanMaxNotes
         THEN {"note_count"} ELSE {})
        \cup
        (IF hierarchy_depth < PlanMinDepth - 1 \/ hierarchy_depth > PlanMaxDepth - 1
         THEN {"hierarchy_depth"} ELSE {})

--------------------------------------------------------------------------
(* The answers of the planning model that the runs start from: four plan  *)
(* shapes, cut to lengths around the schema's limits, each as it stands   *)
(* or with one note changed.                                              *)

IdSeq == <<"n1", "n2", "n3", "n4", "n5", "n6", "n7", "n8", "n9", "n10",
           "n11", "n12", "n13", "n14", "n15", "n16">>

TitleSeq == <<<<"r">>, <<"a">>, <<"c">>, <<"b">>, <<"d">>, <<"e">>, <<"f">>,
              <<"g">>, <<"h">>, <<"i">>, <<"j">>, <<"k">>, <<"l">>, <<"m">>,
              <<"o">>, <<"p">>>>

\* parent of each note, as an index into the plan (0: a root)
BushyParents == <<0, 1, 1, 2, 2, 3, 3, 4, 6, 8, 1, 1, 1, 1, 1, 1>>
FlatParents  == <<0, 1, 1, 1, 1, 1, 1, 1, 1, 1>>
DeepParents  == <<0, 1, 2, 3, 4, 5, 1, 1, 1, 1>>
\* two roots, the second one (n7) with a child and a grandchild
TwoRootParents == <<0, 1, 1, 2, 2, 3, 0, 7, 8, 1>>

RECURSIVE DepthIn(_, _)
DepthIn(parents, i) == IF parents[i] = 0 THEN 0 ELSE DepthIn(parents, parents[i]) + 1

PlanFrom(parents, n) ==
    [i \in 1..n |->
        [id |-> IdSeq[i],
         title |-> TitleSeq[i],
         instructions |-> IdSeq[i],
         parent_id |-> IF parents[i] = 0 THEN None ELSE IdSeq[parents[i]],
         level |-> DepthIn(parents, i)]]

BasePlans ==
    {PlanFrom(BushyParents, n) : n \in {0, MinNotes - 1, MinNotes, MaxNotes + 1}}
    \cup {PlanFrom(FlatParents, MinNotes), PlanFrom(DeepParents, MinNotes),
          PlanFrom(TwoRootParents, MinNotes)}

MutantIds == {"n1", " "}
MutantParents == {None, "n2", "zz"}
MutantLevels == {-1, 0, 3}
MutantTitles == {<<"?">>, <<"a", "?">>, <<"a", " ", "b">>, <<"a", "_", "b">>}

\* the notes one note of the plan may be replaced by
Replacements(note, i) ==
    {[note EXCEPT !.id = v] : v \in MutantIds}
    \cup {[note EXCEPT !.parent_id = v] : v \in MutantParents}
    \cup {[note EXCEPT !.level = v] : v \in MutantLevels}
    \cup {[note EXCEPT !.title = v] : v \in IF i <= MaxRetitled THEN MutantTitles ELSE {}}
    \cup {[note EXCEPT !.parent_id = None, !.level = 0]}

Variants(plan) ==
    {plan} \cup UNION {{[plan EXCEPT ![i] = r] : r \in Replacements(plan[i], i)} :
                       i \in 1..Len(plan)}

Candidates == UNION {Variants(plan) : plan \in BasePlans}

RootNames == {NoName, <<"x">>, <<"?">>}

--------------------------------------------------------------------------
(* generate_hierarchical_notes: the index of the plan *)

\* notes_by_id.values(): one note per id, at the place of the id's first
\* occurrence, holding the id's last occurrence (the plan itself when no id
\* occurs twice)
NotesById(plan) ==
    IF UniqueIds(plan) THEN plan
    ELSE LET firsts == SelectSeq([i \in 1..Len(plan) |-> i],
                                 LAMBDA i : \A j \in 1..(i - 1) : plan[j].id # plan[i].id)
             last(i) == CHOOSE j \in 1..Len(plan) :
                            /\ plan[j].id = plan[i].id
                            /\ \A k \in (j + 1)..Len(plan) : plan[k].id # plan[i].id
         IN [n \in 1..Len(firsts) |-> plan[last(firsts[n])]]

\* children_by_parent_id handing the notes whose parent is missing to the
\* first root
ChildrenByParentIdAdoptsOrphans(plan, note_id) ==
    LET roots == SelectSeq(NotesById(plan), LAMBDA n : n.parent_id = None)
    IN SelectSeq(NotesById(plan),
                 LAMBDA n : /\ n.parent_id # None
                            /\ \/ n.parent_id = note_id
                               \/ /\ n.parent_id \notin SeqToSet(Ids(plan))
                                  /\ roots # <<>>
                                  /\ roots[1].id = note_id)

\* children_by_parent_id with every child appended twice
ChildrenByParentIdTwice(plan, note_id) ==
    LET once == SelectSeq(NotesById(plan),
                          LAMBDA n : n.parent_id # None /\ n.parent_id = note_id)
    IN [i \in 1..(2 * Len(once)) |-> once[(i + 1) \div 2]]

\* children_by_parent_id.get(note_id, [])
ChildrenByParentId(plan, note_id) ==
    SelectSeq(NotesById(plan), LAMBDA n : n.parent_id # None /\ n.parent_id = note_id)

RootNotes(plan) == SelectSeq(NotesById(plan), LAMBDA n : n.parent_id = None)

\* the notes generate_hierarchical_notes warns about and skips: their
\* parent_id is the id of no note
MissingParent(plan) ==
    SelectSeq(NotesById(plan),
              LAMBDA n : n.parent_id # None /\ n.parent_id \notin SeqToSet(Ids(plan)))

\* what the loop over notes_by_id logs
IndexWarnings(plan) == IF MissingParent(plan) # <<>> THEN {"missing_parent"} ELSE {}

\* the notes left in the order of the plan
Unsorted(notes) == notes

\* sorted(notes, key=title): a stable insertion by title
RECURSIVE SortedByTitle(_)
SortedByTitle(notes) ==
    IF notes = <<>> THEN <<>>
    ELSE LET n == Len(notes)
             x == notes[n]
             front == SortedByTitle(SubSeq(notes, 1, n - 1))
             keep == SelectSeq(front, LAMBDA y : ~StrLess(x.title, y.title))
             rest == SelectSeq(front, LAMBDA y : StrLess(x.title, y.title))
         IN keep \o <<x>> \o rest

\* root_basename_override
RootBasenameOverride(name) == IF name # <<>> THEN sanitize_filename(name) ELSE <<>>

\* current_basename of a note, lines 167-175
CurrentBasename(title, parent_basename, is_root, override) ==
    IF is_root /\ override # <<>> THEN override
    ELSE IF parent_basename # <<>>
         THEN parent_basename \o <<"_">> \o sanitize_filename(title)
         ELSE sanitize_filename(title)

\* format_note's result: the metadata block's parent_note and the body's parts
FinalContent(note, parent_basename, child_links_list) ==
    [parent_note |-> IF parent_basename # <<>>
                     THEN format_obsidian_link(parent_basename) ELSE <<>>,
     title |-> note.title,
     generated_content |-> note.instructions,
     sub_topics |-> [i \in 1..Len(child_links_list) |->
                        format_obsidian_link(child_links_list[i].basename)]]

NoFileInfo == [ok |-> FALSE, filepath |-> <<>>, basename |-> <<>>]

\* a new activation of _create_note_file
Frame(note, parent_basename, is_root) ==
    [note |-> note, parent_basename |-> parent_basename, is_root |-> is_root,
     stage |-> "enter", current_basename |-> <<>>, todo |-> <<>>,
     child_links_list |-> <<>>]

Top == stack[Len(stack)]
Callers == SubSeq(stack, 1, Len(stack) - 1)

\* the caller lists the child whatever the call returned
ReturnedAlsoOnFailure(callers, file_info, child_id) ==
    IF callers = <<>> THEN callers
    ELSE [callers EXCEPT ![Len(callers)].child_links_list =
              Append(@, [id |-> child_id, basename |-> file_info.basename])]

\* the stack after the innermost call returned file_info to its caller
Returned(callers, file_info, child_id) ==
    IF callers = <<>> \/ ~file_info.ok THEN callers
    ELSE [callers EXCEPT ![Len(callers)].child_links_list =
              Append(@, [id |-> child_id, basename |-> file_info.basename])]

\* the innermost call going through its children from the last to the first
DescendLastFirst(stk) ==
    IF stk # <<>> /\ stk[Len(stk)].stage = "children" /\ stk[Len(stk)].todo # <<>>
    THEN LET todo == stk[Len(stk)].todo
         IN Append([stk EXCEPT ![Len(stk)].todo = SubSeq(todo, 1, Len(todo) - 1)],
                   Frame(todo[Len(todo)], stk[Len(stk)].current_basename, FALSE))
    ELSE stk

\* the innermost call calling for all its children at once
RECURSIVE PushAll(_, _, _)
PushAll(stk, todo, basename) ==
    IF todo = <<>> THEN stk
    ELSE Append(PushAll(stk, Tail(todo), basename), Frame(Head(todo), basename, FALSE))

DescendAll(stk) ==
    IF stk # <<>> /\ stk[Len(stk)].stage = "children" /\ stk[Len(stk)].todo # <<>>
    THEN PushAll([stk EXCEPT ![Len(stk)].todo = <<>>], stk[Len(stk)].todo,
                 stk[Len(stk)].current_basename)
    ELSE stk

\* the innermost call going on to its write without calling for its children
DescendNever(stk) ==
    IF stk # <<>> /\ stk[Len(stk)].stage = "children" /\ stk[Len(stk)].todo # <<>>
    THEN [stk EXCEPT ![Len(stk)].todo = <<>>]
    ELSE stk

\* lines 194-195: the innermost call, once its content is generated or a
\* child has returned, calls _create_note_file for its next child
Descend(stk) ==
    IF stk # <<>> /\ stk[Len(stk)].stage = "children" /\ stk[Len(stk)].todo # <<>>
    THEN Append([stk EXCEPT ![Len(stk)].todo = Tail(@)],
                Frame(Head(stk[Len(stk)].todo), stk[Len(stk)].current_basename, FALSE))
    ELSE stk

--------------------------------------------------------------------------
(* The run *)

Init ==
    /\ candidate \in Candidates
    /\ required_root_name \in RootNames
    /\ pc = "start"
    /\ research_plan = <<>>
    /\ plan_ok = FALSE
    /\ plan_error = "none"
    /\ warnings = {}
    /\ stack = <<>>
    /\ created_files = <<>>
    /\ processed_notes = {}
    /\ files = <<>>
    /\ events = <<>>
    /\ root_file_info = NoFileInfo
    /\ result_path = <<>>
    /\ faults = 0

\* main, stage 1: plan_research_structure; the client validates the answer
\* against ResearchStructure and returns None when that raises
PlanResearchStructure ==
    /\ pc = "start"
    /\ \E responded \in BOOLEAN :
        LET verdict == IF responded THEN ValidateStructure(candidate) ELSE "no_response"
        IN /\ plan_error' = verdict
           /\ plan_ok' = (verdict = "ok")
           /\ research_plan' = IF verdict = "ok" THEN candidate ELSE <<>>
           /\ warnings' = IF verdict = "ok" THEN PlanWarnings(candidate) ELSE {}
    /\ pc' = "planned"
    /\ UNCHANGED <<candidate, required_root_name, stack, created_files,
                   processed_notes, files, events, root_file_info, result_path,
                   faults>>

\* main: "if not research_plan: ... sys.exit(1)"
MainPlanFailed ==
    /\ pc = "planned"
    /\ ~plan_ok \/ research_plan = <<>>
    /\ pc' = "exit1"
    /\ UNCHANGED <<candidate, required_root_name, research_plan, plan_ok,
                   plan_error, warnings, stack, created_files, processed_notes,
                   files, events, root_file_info, result_path, faults>>

\* generate_hierarchical_notes sorting the plan it was given by title
GenerateHierarchicalNotesSortsPlan ==
    /\ pc = "planned"
    /\ plan_ok /\ research_plan # <<>>
    /\ research_plan' = SortedByTitle(research_plan)
    /\ IF RootNotes(research_plan) = <<>>
       THEN /\ pc' = "returned"
            /\ stack' = <<>>
       ELSE /\ pc' = "creating"
            /\ stack' = <<Frame(RootNotes(research_plan)[1], <<>>, TRUE)>>
    /\ warnings' = warnings \cup IndexWarnings(research_plan)
    /\ UNCHANGED <<candidate, required_root_name, plan_ok,
                   plan_error, created_files, processed_notes, files,
                   events, root_file_info, result_path, faults>>

\* generate_hierarchical_notes starting from the root's first child
GenerateHierarchicalNotesFromFirstChild ==
    /\ pc = "planned"
    /\ plan_ok /\ research_plan # <<>>
    /\ LET roots == RootNotes(research_plan)
           children == IF roots = <<>> THEN <<>>
                       ELSE ChildrenByParentId(research_plan, roots[1].id)
       IN IF children = <<>>
          THEN /\ pc' = "returned"
               /\ stack' = <<>>
          ELSE /\ pc' = "creating"
               /\ stack' = <<Frame(children[1], <<>>, TRUE)>>
    /\ warnings' = warnings \cup IndexWarnings(research_plan)
    /\ UNCHANGED <<candidate, required_root_name, research_plan, plan_ok,
                   plan_error, created_files, processed_notes, files,
                   events, root_file_info, result_path, faults>>

\* generate_hierarchical_notes starting from the last root note of the plan
GenerateHierarchicalNotesLastRoot ==
    /\ pc = "planned"
    /\ plan_ok /\ research_plan # <<>>
    /\ IF RootNotes(research_plan) = <<>>
       THEN /\ pc' = "returned"
            /\ stack' = <<>>
       ELSE /\ pc' = "creating"
            /\ stack' = <<Frame(RootNotes(research_plan)[Len(RootNotes(research_plan))],
                                <<>>, TRUE)>>
    /\ warnings' = warnings \cup IndexWarnings(research_plan)
    /\ UNCHANGED <<candidate, required_root_name, research_plan, plan_ok,
                   plan_error, created_files, processed_notes, files,
                   events, root_file_info, result_path, faults>>

\* main, stage 2: generate_hierarchical_notes up to the call for the root
GenerateHierarchicalNotes ==
    /\ pc = "planned"
    /\ plan_ok /\ research_plan # <<>>
    /\ IF RootNotes(research_plan) = <<>>
       THEN /\ pc' = "returned"
            /\ stack' = <<>>
       ELSE /\ pc' = "creating"
            /\ stack' = <<Frame(RootNotes(research_plan)[1], <<>>, TRUE)>>
    /\ warnings' = warnings \cup IndexWarnings(research_plan)
    /\ UNCHANGED <<candidate, required_root_name, research_plan, plan_ok,
                   plan_error, created_files, processed_notes, files,
                   events, root_file_info, result_path, faults>>

\* a return after which the caller calls again for a child that failed
ReturnRetriesOnFailure(file_info) ==
    /\ stack' = IF file_info.ok \/ Callers = <<>>
                THEN Descend(Returned(Callers, file_info, Top.note.id))
                ELSE Append(Callers, Frame(Top.note, Top.parent_basename, FALSE))
    /\ IF Callers = <<>>
       THEN /\ root_file_info' = file_info
            /\ result_path' = IF file_info.ok THEN file_info.filepath ELSE <<>>
            /\ pc' = "returned"
       ELSE UNCHANGED <<root_file_info, result_path, pc>>

\* a return in which a failure makes the caller give up its remaining children
ReturnAbortsSiblings(file_info) ==
    /\ stack' = IF file_info.ok \/ Callers = <<>>
                THEN Descend(Returned(Callers, file_info, Top.note.id))
                ELSE [Callers EXCEPT ![Len(Callers)].todo = <<>>]
    /\ IF Callers = <<>>
       THEN /\ root_file_info' = file_info
            /\ result_path' = IF file_info.ok THEN file_info.filepath ELSE <<>>
            /\ pc' = "returned"
       ELSE UNCHANGED <<root_file_info, result_path, pc>>

\* what the innermost call's return does to its caller, or to the run
Return(file_info) ==
    /\ stack' = Descend(Returned(Callers, file_info, Top.note.id))
    /\ IF Callers = <<>>
       THEN /\ root_file_info' = file_info
            /\ result_path' = IF file_info.ok THEN file_info.filepath ELSE <<>>
            /\ pc' = "returned"
       ELSE UNCHANGED <<root_file_info, result_path, pc>>

\* _create_note_file, lines 148-195: the memo test and the content
\* generation of the note just called for; when generated, its basename, its
\* sorted children and the call for the first of them
CreateNoteFileGenerate ==
    /\ pc = "creating"
    /\ Top.stage = "enter"
    /\ IF Top.note.id \in processed_notes
       THEN /\ Return(created_files[Top.note.id])
            /\ UNCHANGED <<events, faults>>
       ELSE \E generated \in BOOLEAN :
            /\ ~generated => faults < MaxFaults
            /\ events' = Append(events, [kind |-> "gen", id |-> Top.note.id,
                                         ok |-> generated, filepath |-> <<>>])
            /\ faults' = IF generated THEN faults ELSE faults + 1
            /\ IF generated
               THEN /\ stack' = Descend([stack EXCEPT ![Len(stack)] =
                          [@ EXCEPT !.stage = "children",
                                    !.current_basename =
                                        CurrentBasename(Top.note.title, Top.parent_basename,
                                            Top.is_root,
                                            RootBasenameOverride(required_root_name)),
                                    !.todo = SortedByTitle(
                                        ChildrenByParentId(research_plan, Top.note.id))]])
                    /\ UNCHANGED <<root_file_info, result_path, pc>>
               ELSE Return(NoFileInfo)
    /\ UNCHANGED <<candidate, required_root_name, research_plan, plan_ok,
                   plan_error, warnings, created_files, processed_notes, files>>

\* _create_note_file, lines 199-232, and line 195-197 of its caller: every
\* child has returned, the content is assembled and written, the call
\* returns and its caller calls for its next child
CreateNoteFileWrite ==
    /\ pc = "creating"
    /\ Top.stage = "children"
    /\ Top.todo = <<>>
    /\ \E written \in BOOLEAN :
        LET filepath == Filepath(Top.current_basename)
            final_content == FinalContent(Top.note, Top.parent_basename,
                                          Top.child_links_list)
            file_info == [ok |-> TRUE, filepath |-> filepath,
                          basename |-> Top.current_basename]
        IN /\ ~written => faults < MaxFaults
           /\ faults' = IF written THEN faults ELSE faults + 1
           /\ events' = Append(events, [kind |-> "write", id |-> Top.note.id,
                                        ok |-> written, filepath |-> filepath])
           /\ IF written
              THEN /\ files' = [p \in DOMAIN files \cup {filepath} |->
                                   IF p = filepath
                                   THEN [id |-> Top.note.id, text |-> final_content,
                                         sub_topic_ids |-> Ids(Top.child_links_list)]
                                   ELSE files[p]]
                   /\ created_files' = [i \in DOMAIN created_files \cup {Top.note.id} |->
                                           IF i = Top.note.id THEN file_info
                                           ELSE created_files[i]]
                   /\ processed_notes' = processed_notes \cup {Top.note.id}
                   /\ Return(file_info)
              ELSE /\ UNCHANGED <<files, created_files, processed_notes>>
                   /\ Return(NoFileInfo)
    /\ UNCHANGED <<candidate, required_root_name, research_plan, plan_ok,
                   plan_error, warnings>>

\* main reporting a failure as soon as any note failed
MainReportStrict ==
    /\ pc = "returned"
    /\ pc' = IF result_path # <<>> /\ faults = 0 THEN "done" ELSE "exit1"
    /\ UNCHANGED <<candidate, required_root_name, research_plan, plan_ok,
                   plan_error, warnings, stack, created_files, processed_notes,
                   files, events, root_file_info, result_path, faults>>

\* main: "if result_path: ... else: sys.exit(1)"
MainReport ==
    /\ pc = "returned"
    /\ pc' = IF result_path # <<>> THEN "done" ELSE "exit1"
    /\ UNCHANGED <<candidate, required_root_name, research_plan, plan_ok,
                   plan_error, warnings, stack, created_files, processed_notes,
                   files, events, root_file_info, result_path, faults>>

Next ==
    \/ PlanResearchStructure
    \/ MainPlanFailed
    \/ GenerateHierarchicalNotes
    \/ CreateNoteFileGenerate
    \/ CreateNoteFileWrite
    \/ MainReport

Spec == Init /\ [][Next]_vars

--------------------------------------------------------------------------
(* generate_hierarchical_notes called with a plan that did not go through  *)
(* validation: small plans with a root, among them plans with a missing    *)
(* parent, a self-parented note, two notes that are each other's parent,   *)
(* several roots, or an id used twice.                                     *)

\* the plans of the direct calls have this many notes
DirectNotes == 5

\* n2 and n4 are each other's parent
CyclePlan == [PlanFrom(BushyParents, DirectNotes) EXCEPT ![2].parent_id = "n4"]

DirectPlans ==
    {plan \in Variants(PlanFrom(BushyParents, DirectNotes)) \cup {CyclePlan} :
        HasRoot(plan)}

InitDirect ==
    /\ candidate \in DirectPlans
    /\ required_root_name = NoName
    /\ pc = "planned"
    /\ research_plan = candidate
    /\ plan_ok = TRUE
    /\ plan_error = "none"
    /\ warnings = {}
    /\ stack = <<>>
    /\ created_files = <<>>
    /\ processed_notes = {}
    /\ files = <<>>
    /\ events = <<>>
    /\ root_file_info = NoFileInfo
    /\ result_path = <<>>
    /\ faults = 0

NextDirect ==
    \/ GenerateHierarchicalNotes
    \/ CreateNoteFileGenerate
    \/ CreateNoteFileWrite

\* the call runs in one thread, each generation and write returning or
\* timing out: a step that can be taken is taken
SpecDirect == InitDirect /\ [][NextDirect]_vars /\ WF_vars(NextDirect)

--------------------------------------------------------------------------
(* What the properties speak of *)

\* the planning model answered and its answer went through validation
Validated == pc # "start" /\ plan_error # "no_response"

\* the four structural conditions of a plan
StructurallyValid(notes) ==
    /\ UniqueIds(notes)
    /\ ParentsResolve(notes)
    /\ LevelsConsistent(notes)
    /\ HasRoot(notes)

OutsideSoftBounds(notes) ==
    \/ MaxLevel(notes) < MinLevelDepth
    \/ MaxLevel(notes) > MaxLevelDepth
    \/ Len(notes) < PlanMinNotes
    \/ Len(notes) > PlanMaxNotes

RunEnded == pc \in {"done", "exit1"}

NoteOf(plan, id) == plan[CHOOSE i \in 1..Len(plan) : plan[i].id = id]

PlanIds == SeqToSet(Ids(research_plan))

SelectedRoot == RootNotes(research_plan)[1].id

\* the ids above id, following parent_id at most fuel times
RECURSIVE AncestorIds(_, _, _)
AncestorIds(plan, id, fuel) ==
    IF fuel = 0 \/ id \notin SeqToSet(Ids(plan)) THEN {}
    ELSE LET parent_id == NoteOf(plan, id).parent_id
         IN IF parent_id = None THEN {}
            ELSE {parent_id} \cup AncestorIds(plan, parent_id, fuel - 1)

Ancestors(id) == AncestorIds(research_plan, id, Len(research_plan))

\* id and everything below it
Subtree(id) == {d \in PlanIds : d = id \/ id \in Ancestors(d)}

Event(kind, id, ok) ==
    \E k \in 1..Len(events) :
        events[k].kind = kind /\ events[k].id = id /\ events[k].ok = ok

GenFailed(id) == Event("gen", id, FALSE)
GenSucceeded(id) == Event("gen", id, TRUE)
WriteFailed(id) == Event("write", id, FALSE)
WriteSucceeded(id) == Event("write", id, TRUE)

\* the calls of one kind made for id
Calls(kind, id) == {k \in 1..Len(events) : events[k].kind = kind /\ events[k].id = id}

\* the output directory holds a file that was written for id
HasFile(id) == \E p \in DOMAIN files : files[p].id = id

--------------------------------------------------------------------------
(* C1-C3: validation and what main does with its verdict *)

\* C1: validation accepts a candidate plan if and only if its ids are unique,
\* every parent_id resolves, its levels are consistent and it has a root; no
\* other condition makes it accept or reject.
C1_AcceptIffStructurallyValid ==
    Validated => (plan_ok <=> StructurallyValid(candidate))

\* C2: a structurally valid plan whose depth or size is outside the preferred
\* range is not rejected: planning returns it with a warning and the run goes
\* on to create the notes.
C2_SoftBoundsOnlyWarn ==
    (/\ Validated
     /\ FieldsValid(candidate)
     /\ candidate # <<>>
     /\ StructurallyValid(candidate)
     /\ OutsideSoftBounds(candidate))
    => (/\ plan_ok
        /\ research_plan = candidate
        /\ warnings # {}
        /\ pc # "exit1"
        /\ pc = "planned" => ENABLED GenerateHierarchicalNotes)

\* C3: whenever validation fails (two notes share an id, a parent_id dangles,
\* the levels are inconsistent, there is no root), the run can only end in
\* failure: no content generation is called, no file is written and
\* _create_note_file is never entered.
C3_FailedValidationDoesNoWork ==
    /\ (pc = "planned" /\ ~StructurallyValid(candidate)) => ~plan_ok
    /\ (pc # "start" /\ ~plan_ok)
       => (/\ events = <<>>
           /\ files = <<>>
           /\ created_files = <<>>
           /\ stack = <<>>
           /\ pc \in {"planned", "exit1"}
           /\ pc = "planned" =>
                  ENABLED MainPlanFailed /\ ~ENABLED GenerateHierarchicalNotes)

\* a run that failed because two notes of the answer share an id
C3_Witness ==
    /\ pc = "exit1"
    /\ plan_error = "duplicate_id"
    /\ \E i, j \in 1..Len(candidate) : i # j /\ candidate[i].id = candidate[j].id

--------------------------------------------------------------------------
(* C4-C6, C10: failures while the notes are created *)

\* the ids whose content generation failed
FailedGenerations ==
    {events[k].id : k \in {k \in 1..Len(events) :
                               events[k].kind = "gen" /\ ~events[k].ok}}

\* id is one of the notes in failed, or a descendant of one
Under(failed, id) == id \in failed \/ Ancestors(id) \cap failed # {}

\* the child ids listed as sub-topics by the calls in progress and by the files
ListedBy(id) ==
    UNION {SeqToSet(Ids(stack[k].child_links_list)) :
               k \in {k \in 1..Len(stack) : stack[k].note.id = id}}
    \cup UNION {SeqToSet(files[p].sub_topic_ids) :
                    p \in {p \in DOMAIN files : files[p].id = id}}

\* C4: if the content generation of note X fails then, when the run has
\* ended, no file has been written for X or for any descendant of X (no
\* write was even tried), and no body, X's parent's included, lists X among
\* its sub-topics; nor does a body in the making at any time.
C4_SkipPropagation ==
    LET failed == FailedGenerations
    IN failed # {} =>
        /\ \A k \in 1..Len(stack) :
               SeqToSet(Ids(stack[k].child_links_list)) \cap failed = {}
        /\ RunEnded =>
               /\ \A k \in 1..Len(events) :
                      events[k].kind = "write" => ~Under(failed, events[k].id)
               /\ \A p \in DOMAIN files :
                      /\ ~Under(failed, files[p].id)
                      /\ SeqToSet(files[p].sub_topic_ids) \cap failed = {}
               /\ \A id \in DOMAIN created_files : ~Under(failed, id)

\* a finished run in which a note with descendants failed to generate and
\* its parent's file, listing another child, was written
C4_Witness ==
    /\ pc = "done"
    /\ \E x \in PlanIds :
        /\ GenFailed(x)
        /\ Subtree(x) # {x}
        /\ NoteOf(research_plan, x).parent_id # None
        /\ HasFile(NoteOf(research_plan, x).parent_id)
        /\ ListedBy(NoteOf(research_plan, x).parent_id) # {}

\* the notes a run leaves a file for when every write succeeds: those at or
\* below the selected root that were generated, as were all their ancestors
Unaffected(id) ==
    /\ id = SelectedRoot \/ SelectedRoot \in Ancestors(id)
    /\ GenSucceeded(id)
    /\ \A a \in Ancestors(id) : GenSucceeded(a)

\* C5: a failed content generation does not abort sibling or ancestor work:
\* when the run ends (writes succeeding), a file exists for exactly the
\* notes that were generated and whose ancestors all were; the failed note
\* and its subtree are the only omissions.
C5_OnlyFailedSubtreesOmitted ==
    (/\ RunEnded
     /\ plan_ok
     /\ \E x \in PlanIds : GenFailed(x)
     /\ \A x \in PlanIds : ~WriteFailed(x))
    => \A id \in PlanIds : HasFile(id) <=> Unaffected(id)

\* C6: within one run a note id is materialized at most once: the run's
\* calls, complete when it has ended, hold one content generation and one
\* write per id at most, and at any time every descriptor handed to a
\* caller is the memoized one.
C6_AtMostOncePerNode ==
    /\ RunEnded =>
           \A id \in PlanIds :
               /\ Cardinality(Calls("gen", id)) <= 1
               /\ Cardinality(Calls("write", id)) <= 1
    /\ processed_notes = DOMAIN created_files
    /\ \A k \in 1..Len(stack) : \A n \in 1..Len(stack[k].child_links_list) :
        LET link == stack[k].child_links_list[n]
        IN /\ link.id \in processed_notes
           /\ created_files[link.id].basename = link.basename

\* a finished run in which some note was generated and written, and another
\* one was tried and failed
C6_Witness ==
    /\ pc = "done"
    /\ \E id \in PlanIds : GenSucceeded(id) /\ WriteSucceeded(id)
    /\ \E id \in PlanIds : GenFailed(id)
    /\ \E id \in PlanIds : WriteFailed(id)

\* C10: generate_hierarchical_notes returns the root's file path, and the
\* run reports success, exactly when the selected root's own content
\* generation and write succeeded, whatever happened to its descendants.
C10_SuccessIffRootMaterialized ==
    (plan_ok /\ pc \in {"returned", "done", "exit1"})
    => LET root == SelectedRoot
           root_ok == GenSucceeded(root) /\ WriteSucceeded(root)
       IN /\ result_path # <<>> <=> root_ok
          /\ root_ok =>
                /\ result_path = created_files[root].filepath
                /\ result_path \in DOMAIN files
                /\ files[result_path].id = root
          /\ pc = "done" => root_ok
          /\ pc = "exit1" => ~root_ok

\* a run that reports success although a descendant of the root failed to
\* generate and another failed to be written
C10_Witness ==
    /\ pc = "done"
    /\ result_path # <<>>
    /\ \E d \in PlanIds \ {SelectedRoot} : GenFailed(d)
    /\ \E d \in PlanIds \ {SelectedRoot} : WriteFailed(d)

--------------------------------------------------------------------------
(* C7-C9: basenames *)

Written == DOMAIN created_files

\* C7: any two distinct notes materialized in one run get distinct
\* basenames, hence distinct file paths, so that no file written in the run
\* is overwritten by a later write of the run.
C7_GlobalBasenameUniqueness ==
    /\ \A i, j \in Written :
        i # j => /\ created_files[i].basename # created_files[j].basename
                 /\ created_files[i].filepath # created_files[j].filepath
    /\ \A k, l \in 1..Len(events) :
        (/\ k < l
         /\ events[k].kind = "write" /\ events[k].ok
         /\ events[l].kind = "write" /\ events[l].ok)
        => events[k].filepath # events[l].filepath

\* C8: two sibling notes whose titles are distinct get distinct basenames.
C8_SiblingBasenamesDiffer ==
    \A i, j \in Written :
        (/\ i # j
         /\ NoteOf(research_plan, i).parent_id = NoteOf(research_plan, j).parent_id
         /\ NoteOf(research_plan, i).title # NoteOf(research_plan, j).title)
        => created_files[i].basename # created_files[j].basename

\* C9: the basename of every materialized non-root note is its parent's
\* basename followed by "_" and the note's sanitized title, a strict
\* superstring of the parent's basename, for every title and root name.
C9_ChildBasenameExtendsParent ==
    \A i \in Written :
        LET note == NoteOf(research_plan, i)
        IN (note.parent_id # None /\ note.parent_id \in Written)
           => LET parent_basename == created_files[note.parent_id].basename
              IN /\ created_files[i].basename =
                        parent_basename \o <<"_">> \o sanitize_filename(note.title)
                 /\ Len(created_files[i].basename) > Len(parent_basename)

--------------------------------------------------------------------------
(* C11, C12, C14: what a run leaves in the output directory *)

\* C11: there is no output without a root: whenever the selected root could
\* not be materialized (its content generation or its write failed) and the
\* run reports failure, no file has been written to the output directory
\* during the run.
C11_NoOutputWithoutRoot ==
    (plan_ok /\ pc = "exit1")
    => LET root == SelectedRoot
       IN (GenFailed(root) \/ WriteFailed(root))
          => /\ files = <<>>
             /\ \A k \in 1..Len(events) :
                    ~(events[k].kind = "write" /\ events[k].ok)

\* C12: when every content generation and every write succeeds on a
\* validated plan with one root, the output directory ends with one file
\* per note of the plan, every parent's Sub-Topics section links to the
\* basename of each of its children, and every child's metadata records its
\* parent's basename as parent_note.
C12_AllSucceedFullTree ==
    (pc = "done" /\ faults = 0 /\ Len(RootNotes(research_plan)) = 1)
    => /\ Cardinality(DOMAIN files) = Len(research_plan)
       /\ PlanIds = DOMAIN created_files
       /\ \A i \in 1..Len(research_plan) :
            LET note == research_plan[i]
            IN note.parent_id # None =>
                LET parent == created_files[note.parent_id]
                    child == created_files[note.id]
                IN /\ format_obsidian_link(child.basename)
                          \in SeqToSet(files[parent.filepath].text.sub_topics)
                   /\ files[child.filepath].text.parent_note =
                          format_obsidian_link(parent.basename)

\* the notes of a plan whose parent_id is null, by their place in the plan
RootIndexes(plan) == {i \in 1..Len(plan) : plan[i].parent_id = None}

\* C14: when a plan has several notes with a null parent_id, validation does
\* not reject it for that, the first of them in plan order is the root the
\* run starts from, and for every other root and every descendant of
\* another root no content generation is called and no file is written.
C14_FirstRootOnly ==
    (Validated /\ Cardinality(RootIndexes(candidate)) > 1)
    => /\ pc = "planned" =>
              /\ (/\ FieldsValid(candidate)
                  /\ StructurallyValid(candidate)
                  /\ ~OutsideSoftBounds(candidate)) => plan_ok
              /\ plan_ok => ENABLED GenerateHierarchicalNotes
       /\ (plan_ok /\ pc \notin {"start", "planned"})
          => LET first == CHOOSE i \in RootIndexes(research_plan) :
                              \A j \in RootIndexes(research_plan) : i <= j
                 root == research_plan[first].id
                 kept == Subtree(root)
             IN /\ events # <<>> => events[1] = [kind |-> "gen", id |-> root,
                                                ok |-> events[1].ok,
                                                filepath |-> <<>>]
                /\ stack # <<>> => stack[1].note.id = root /\ stack[1].is_root
                /\ RunEnded =>
                       /\ events # <<>>
                       /\ \A k \in 1..Len(events) : events[k].id \in kept
                       /\ \A p \in DOMAIN files : files[p].id \in kept
                       /\ DOMAIN created_files \subseteq kept

\* a successful run on a plan whose second root has descendants of its own
C14_Witness ==
    /\ pc = "done"
    /\ \E i, j \in RootIndexes(research_plan) :
        /\ i < j
        /\ HasFile(research_plan[i].id)
        /\ Subtree(research_plan[j].id) # {research_plan[j].id}
        /\ \A d \in Subtree(research_plan[j].id) : ~HasFile(d)
    /\ Cardinality(DOMAIN files) > 1

--------------------------------------------------------------------------
(* C19, C20: plans that validation rejects *)

\* C19: every plan that has no note with a null parent_id is rejected by
\* validation.
C19_NoRootRejected ==
    (Validated /\ \A i \in 1..Len(candidate) : candidate[i].parent_id # None)
    => /\ ~plan_ok
       /\ research_plan = <<>>
       /\ plan_error # "ok"

\* a run that failed on a non-empty answer none of whose notes is a root,
\* every other check before the one for a root having passed
C19_Witness ==
    /\ pc = "exit1"
    /\ plan_error = "no_root"
    /\ candidate # <<>>
    /\ \A i \in 1..Len(candidate) : candidate[i].parent_id # None

\* the notes of a plan whose level is not their parent's level plus one
LevelMismatches(plan) ==
    {i \in 1..Len(plan) :
        /\ plan[i].parent_id # None
        /\ \E j \in 1..Len(plan) :
              plan[j].id = plan[i].parent_id /\ plan[i].level # plan[j].level + 1}

\* C20: every plan containing a non-root note whose level differs from its
\* parent's level plus one is rejected by validation.
C20_LevelMismatchRejected ==
    (Validated /\ LevelMismatches(candidate) # {})
    => /\ ~plan_ok
       /\ research_plan = <<>>
       /\ plan_error # "ok"

\* a run that failed on an answer with a root in which the level of a
\* non-root note is the only fault
C20_Witness ==
    /\ pc = "exit1"
    /\ plan_error = "child_level"
    /\ LevelMismatches(candidate) # {}
    /\ \A i \in 1..Len(candidate) : candidate[i].level >= 0

--------------------------------------------------------------------------
(* C13: a run as a function of its inputs *)

\* generate_hierarchical_notes's inputs: the plan, the root name, and the
\* environment's answers (the ids whose content generation fails and the ids
\* whose write fails)
RunInputs(plan, name, gen_fails, write_fails) ==
    [plan |-> plan, override |-> RootBasenameOverride(name),
     gen_fails |-> gen_fails, write_fails |-> write_fails]

\* nothing generated, written or memoized yet
EmptyOutput == [calls |-> <<>>, files |-> <<>>, created |-> <<>>]

\* _create_note_file (lines 147-232) and its loop over the children (lines
\* 194-197), run to completion: out is the generation calls made, the output
\* directory and created_files so far
RECURSIVE CreateNoteFileResult(_, _, _, _, _), CreateChildrenResult(_, _, _, _, _)
CreateNoteFileResult(in, note, parent_basename, is_root, out) ==
    IF note.id \in DOMAIN out.created
    THEN [out |-> out, file_info |-> out.created[note.id]]
    ELSE LET called == [out EXCEPT !.calls = Append(@, note.id)]
         IN IF note.id \in in.gen_fails
            THEN [out |-> called, file_info |-> NoFileInfo]
            ELSE LET current_basename ==
                         CurrentBasename(note.title, parent_basename, is_root,
                                         in.override)
                     filepath == Filepath(current_basename)
                     children == CreateChildrenResult(in,
                                     SortedByTitle(ChildrenByParentId(in.plan, note.id)),
                                     current_basename, called, <<>>)
                     file_info == [ok |-> TRUE, filepath |-> filepath,
                                   basename |-> current_basename]
                     entry == [id |-> note.id,
                               text |-> FinalContent(note, parent_basename,
                                                     children.child_links_list),
                               sub_topic_ids |-> Ids(children.child_links_list)]
                 IN IF note.id \in in.write_fails
                    THEN [out |-> children.out, file_info |-> NoFileInfo]
                    ELSE [out |-> [calls |-> children.out.calls,
                                   files |-> [p \in DOMAIN children.out.files
                                                   \cup {filepath} |->
                                                 IF p = filepath THEN entry
                                                 ELSE children.out.files[p]],
                                   created |-> [i \in DOMAIN children.out.created
                                                     \cup {note.id} |->
                                                   IF i = note.id THEN file_info
                                                   ELSE children.out.created[i]]],
                          file_info |-> file_info]
CreateChildrenResult(in, todo, current_basename, out, child_links_list) ==
    IF todo = <<>> THEN [out |-> out, child_links_list |-> child_links_list]
    ELSE LET child == CreateNoteFileResult(in, Head(todo), current_basename,
                                           FALSE, out)
         IN CreateChildrenResult(in, Tail(todo), current_basename, child.out,
                IF child.file_info.ok
                THEN Append(child_links_list,
                            [id |-> Head(todo).id,
                             basename |-> child.file_info.basename])
                ELSE child_links_list)

\* generate_hierarchical_notes (lines 127-237) run to completion
GenerateHierarchicalNotesResult(in) ==
    IF RootNotes(in.plan) = <<>>
    THEN [out |-> EmptyOutput, file_info |-> NoFileInfo]
    ELSE CreateNoteFileResult(in, RootNotes(in.plan)[1], <<>>, TRUE, EmptyOutput)

\* the ids of the content-generation calls of the run, in the order made
GenerationCalls ==
    LET gens == SelectSeq(events, LAMBDA e : e.kind = "gen")
    IN [k \in 1..Len(gens) |-> gens[k].id]

FailedWrites ==
    {events[k].id : k \in {k \in 1..Len(events) :
                               events[k].kind = "write" /\ ~events[k].ok}}

\* C13: idempotence: what a run on a validated plan leaves in an output
\* directory that was empty, and the sequence of its content-generation
\* calls, are a function of the plan, the root name and the answers of the
\* (deterministic) content generation and file system alone, so two runs on
\* the same plan with the same answers produce the same file paths with the
\* same contents and the same sequence of generation calls.
C13_RunIsAFunctionOfItsInputs ==
    (RunEnded /\ plan_ok)
    => LET run == GenerateHierarchicalNotesResult(
                      RunInputs(research_plan, required_root_name,
                                FailedGenerations, FailedWrites))
       IN /\ files = run.out.files
          /\ GenerationCalls = run.out.calls
          /\ created_files = run.out.created
          /\ root_file_info = run.file_info

\* a successful run that wrote several files while one content generation
\* failed
C13_Witness ==
    /\ pc = "done"
    /\ Cardinality(DOMAIN files) > 2
    /\ FailedGenerations # {}

--------------------------------------------------------------------------
(* C15-C17: the order of the calls *)

\* the ids of the children of id in the plan
ChildIds(id) == SeqToSet(Ids(ChildrenByParentId(research_plan, id)))

TitleOf(id) == NoteOf(research_plan, id).title

\* C15: a note's body is finalized and its file written only after every one
\* of its children has been attempted (each child's call has returned a
\* descriptor or a failure); so a note's file is written after the files of
\* all its materialized descendants. Stated of the calls of an ended run.
C15_ChildrenBeforeParent ==
    (RunEnded /\ plan_ok)
    => \A k \in 1..Len(events) :
          events[k].kind = "write" =>
             /\ \A c \in ChildIds(events[k].id) :
                   \E j \in 1..(k - 1) :
                      /\ events[j].kind = "gen" /\ events[j].id = c
                      /\ events[j].ok =>
                            \E l \in (j + 1)..(k - 1) :
                               events[l].kind = "write" /\ events[l].id = c
             /\ LET above == Ancestors(events[k].id)
                IN \A l \in 1..(k - 1) :
                      events[l].kind = "write" => events[l].id \notin above

\* a successful run in which a note was written after two children of its
\* own, one of them after a child of its own
C15_Witness ==
    /\ pc = "done"
    /\ \E x \in PlanIds : \E c \in ChildIds(x) : \E d \in ChildIds(c) :
          WriteSucceeded(x) /\ WriteSucceeded(c) /\ WriteSucceeded(d)
    /\ \E x \in PlanIds : \E c \in ChildIds(x) : WriteSucceeded(x) /\ GenFailed(c)

\* titles by increasing position are in lexicographic order
InTitleOrder(ids) ==
    \A n \in 1..(Len(ids) - 1) : ~StrLess(TitleOf(ids[n + 1]), TitleOf(ids[n]))

\* C16: at every level, the children of a note are attempted in
\* lexicographic order of their titles, and the links of the note's
\* Sub-Topics section appear in that same order, whatever the order of the
\* notes in the plan. Stated of the calls and files of an ended run.
C16_ChildrenInTitleOrder ==
    (RunEnded /\ plan_ok)
    => /\ \A id \in PlanIds :
            InTitleOrder(SelectSeq(GenerationCalls,
                LAMBDA c : NoteOf(research_plan, c).parent_id = id))
       /\ \A p \in DOMAIN files :
            /\ InTitleOrder(files[p].sub_topic_ids)
            /\ Len(files[p].text.sub_topics) = Len(files[p].sub_topic_ids)
            /\ \A n \in 1..Len(files[p].sub_topic_ids) :
                  files[p].text.sub_topics[n] =
                     format_obsidian_link(created_files[files[p].sub_topic_ids[n]].basename)

\* a successful run on a plan in which a later child has the smaller title,
\* both children being linked by their parent's file
C16_Witness ==
    /\ pc = "done"
    /\ \E i, j \in 1..Len(research_plan) :
        /\ i < j
        /\ research_plan[i].parent_id = research_plan[j].parent_id
        /\ StrLess(research_plan[j].title, research_plan[i].title)
        /\ \E p \in DOMAIN files :
              {research_plan[i].id, research_plan[j].id}
                  \subseteq SeqToSet(files[p].sub_topic_ids)

\* C17: when the write of a note's file fails, the note returns no
\* descriptor, gets no memo entry and is left out of its parent's Sub-Topics
\* list, while the files of its siblings completed before remain and its
\* later siblings and its parent are still processed. Stated of an ended run.
C17_WriteFailureIsLocal ==
    (RunEnded /\ plan_ok)
    => \A k \in 1..Len(events) :
          (events[k].kind = "write" /\ ~events[k].ok) =>
             LET x == events[k].id
                 parent_id == NoteOf(research_plan, x).parent_id
             IN /\ x \notin processed_notes
                /\ x \notin DOMAIN created_files
                /\ \A p \in DOMAIN files :
                      files[p].id # x /\ x \notin SeqToSet(files[p].sub_topic_ids)
                /\ parent_id = None => root_file_info = NoFileInfo
                /\ parent_id # None =>
                      /\ \E l \in (k + 1)..Len(events) :
                            events[l].kind = "write" /\ events[l].id = parent_id
                      /\ \A s \in ChildIds(parent_id) \ {x} :
                            /\ \E j \in 1..Len(events) :
                                  events[j].kind = "gen" /\ events[j].id = s
                            /\ (\E j \in 1..(k - 1) :
                                   /\ events[j].kind = "write" /\ events[j].id = s
                                   /\ events[j].ok)
                               => /\ s \in DOMAIN created_files
                                  /\ created_files[s].filepath \in DOMAIN files

\* a successful run in which the write of a note failed between the write
\* of an earlier sibling and the content generation of a later one
C17_Witness ==
    /\ pc = "done"
    /\ \E k \in 1..Len(events) :
        /\ events[k].kind = "write" /\ ~events[k].ok
        /\ \E j \in 1..(k - 1) : \E l \in (k + 1)..Len(events) :
            /\ events[j].kind = "write" /\ events[j].ok
            /\ events[l].kind = "gen"
            /\ {events[j].id, events[l].id}
                   \subseteq ChildIds(NoteOf(research_plan, events[k].id).parent_id)
            /\ HasFile(events[j].id)

--------------------------------------------------------------------------
(* C18: the root's basename *)

\* C18: the root's basename is the caller's root name (as a file name)
\* whenever one is supplied and otherwise the sanitized form of the root's
\* title; the root name is used for the root only, and the root's children
\* are prefixed with whichever basename the root received.
C18_RootBasename ==
    (plan_ok /\ root_file_info.ok)
    => LET root == RootNotes(research_plan)[1]
       IN /\ root_file_info.basename =
                 IF required_root_name # NoName
                 THEN sanitize_filename(required_root_name)
                 ELSE sanitize_filename(root.title)
          /\ \A c \in ChildIds(root.id) \cap DOMAIN created_files :
                created_files[c].basename =
                   root_file_info.basename \o <<"_">> \o sanitize_filename(TitleOf(c))

--------------------------------------------------------------------------
(* C21, C22: what validation guarantees, and in which order it checks *)

\* C21: every plan accepted by validation is acyclic: following parent_id
\* from any note strictly decreases the level and reaches a root in finitely
\* many steps, so no note is its own ancestor.
C21_AcceptedPlanIsAcyclic ==
    (pc = "planned" /\ plan_ok)
    => \A i \in 1..Len(research_plan) :
          LET note == research_plan[i]
              above == AncestorIds(research_plan, note.id, Len(research_plan))
          IN /\ note.level >= 0
             /\ note.id \notin above
             /\ Cardinality(above) = note.level
             /\ \E r \in above \cup {note.id} :
                   NoteOf(research_plan, r).parent_id = None
             /\ note.parent_id # None =>
                   /\ note.parent_id \in PlanIds
                   /\ NoteOf(research_plan, note.parent_id).level = note.level - 1

\* an accepted plan with a note three parent_id steps away from its root
C21_Witness ==
    /\ pc = "planned"
    /\ plan_ok
    /\ \E i \in 1..Len(research_plan) :
          /\ research_plan[i].level = 3
          /\ Cardinality(AncestorIds(research_plan, research_plan[i].id,
                                      Len(research_plan))) = 3

\* the structural conditions a plan violates
Violations(notes) ==
    (IF notes = <<>> THEN {"empty"} ELSE {})
    \cup (IF \E i, j \in 1..Len(notes) : i # j /\ notes[i].id = notes[j].id
          THEN {"duplicate_id"} ELSE {})
    \cup (IF \E i \in 1..Len(notes) :
                /\ notes[i].parent_id # None
                /\ \A j \in 1..Len(notes) : notes[j].id # notes[i].parent_id
          THEN {"dangling_parent"} ELSE {})
    \cup (IF \/ \E i \in 1..Len(notes) :
                   (notes[i].parent_id = None) # (notes[i].level = 0)
             \/ LevelMismatches(notes) # {}
          THEN {"level"} ELSE {})
    \cup (IF \A i \in 1..Len(notes) : notes[i].parent_id # None
          THEN {"no_root"} ELSE {})

\* the first condition of order that is among the violated ones
FirstOf(order, violated) ==
    order[CHOOSE n \in 1..Len(order) :
              /\ order[n] \in violated
              /\ \A m \in 1..(n - 1) : order[m] \notin violated]

\* what validation reported, the two level checks taken as one
Reported ==
    IF plan_error \in {"root_level", "child_level"} THEN "level" ELSE plan_error

\* C22 as stated: validation reports the first violated of: non-empty list,
\* unique ids, every parent_id resolves, level 0 iff root, non-root level is
\* parent's level + 1, at least one root.
C22_OrderAsStated ==
    (pc = "planned" /\ Validated /\ FieldsValid(candidate)
     /\ Violations(candidate) # {})
    => Reported = FirstOf(<<"empty", "duplicate_id", "dangling_parent", "level",
                            "no_root">>, Violations(candidate))

\* C22, amended: validation fails on the first violated of: non-empty list,
\* unique ids, every parent_id resolves, at least one root, and then the
\* levels (0 for a root, parent's level + 1 for a non-root); for a candidate
\* violating several, the one reported is the earliest in this order.
C22_OrderOfTheCode ==
    (pc = "planned" /\ Validated /\ FieldsValid(candidate)
     /\ Violations(candidate) # {})
    => /\ ~plan_ok
       /\ Reported = FirstOf(<<"empty", "duplicate_id", "dangling_parent",
                               "no_root", "level">>, Violations(candidate))

\* a run that failed on an answer violating several conditions, the missing
\* root being the one reported
C22_Witness ==
    /\ pc = "exit1"
    /\ plan_error = "no_root"
    /\ Cardinality(Violations(candidate)) > 1

--------------------------------------------------------------------------
(* C23-C27, C30: the links, the calls in progress, the memo *)

\* C23: parent and child links agree in both directions: for every written
\* note P, the Sub-Topics list of P's file holds exactly the basenames of
\* the children of P whose files were written (no section when there are
\* none), each such child's file records P's basename as parent_note, and
\* the root's file has no parent_note.
C23_LinksAgreeBothWays ==
    (RunEnded /\ plan_ok)
    => \A P \in DOMAIN created_files :
          LET written_children == ChildIds(P) \cap DOMAIN created_files
              file == files[created_files[P].filepath]
          IN /\ SeqToSet(file.text.sub_topics) =
                    {format_obsidian_link(created_files[c].basename) :
                        c \in written_children}
             /\ \A c \in written_children :
                   files[created_files[c].filepath].text.parent_note =
                      format_obsidian_link(created_files[P].basename)
             /\ NoteOf(research_plan, P).parent_id = None =>
                   file.text.parent_note = <<>>

\* the first and the last call (content generation or write) made for id
FirstCall(id) ==
    CHOOSE k \in 1..Len(events) :
        events[k].id = id /\ \A j \in 1..(k - 1) : events[j].id # id
LastCall(id) ==
    CHOOSE k \in 1..Len(events) :
        events[k].id = id /\ \A j \in (k + 1)..Len(events) : events[j].id # id

\* C24: the notes are created one after the other and depth first, with no
\* fan-out across siblings: at any time only the innermost call can be in
\* its content generation, every other call waiting for one child; and in
\* the calls of an ended run those made for a note lie between the first
\* and the last made for its parent, and those made for one sibling are all
\* before or all after those made for another, so the subtree of one
\* sibling is done before the content generation of the next begins.
C24_SequentialDepthFirst ==
    /\ \A k \in 1..(Len(stack) - 1) :
          stack[k].stage = "children" /\ stack[k + 1].note.parent_id = stack[k].note.id
    /\ (RunEnded /\ plan_ok)
       => LET attempted == {events[k].id : k \in 1..Len(events)}
          IN \A x \in attempted :
                LET parent_id == NoteOf(research_plan, x).parent_id
                IN parent_id # None =>
                      /\ parent_id \in attempted
                      /\ FirstCall(parent_id) < FirstCall(x)
                      /\ LastCall(x) < LastCall(parent_id)
                      /\ \A y \in attempted \ {x} :
                            NoteOf(research_plan, y).parent_id = parent_id
                            => \/ LastCall(y) < FirstCall(x)
                               \/ LastCall(x) < FirstCall(y)

\* a run in which a call waits for its second child, the first one having
\* been written with a child of its own
C24_Witness ==
    /\ pc = "creating"
    /\ Len(stack) >= 2
    /\ Top.stage = "enter"
    /\ \E n \in 1..Len(stack[Len(stack) - 1].child_links_list) :
          ChildIds(stack[Len(stack) - 1].child_links_list[n].id)
              \cap DOMAIN created_files # {}

\* C25: creating the notes never changes the plan: the id, title,
\* instructions, parent_id and level of every note, and the order of the
\* notes, stay those of the validated answer, whatever content generations
\* or writes succeed or fail.
C25_PlanIsNeverMutated ==
    (pc # "start" /\ plan_ok) => research_plan = candidate

\* an ended run with failures, after which the plan is still the answer
C25_Witness ==
    /\ RunEnded
    /\ plan_ok
    /\ faults > 0
    /\ files # <<>>
    /\ research_plan = candidate

\* C26: the output is closed under parents: at the end of any run, every
\* non-root note that has a file also has its parent's file, so that no
\* parent_note points to a file that was never written, for every
\* combination of failures.
C26_AncestorClosedOutput ==
    (RunEnded /\ plan_ok)
    => \A p \in DOMAIN files :
          LET parent_id == NoteOf(research_plan, files[p].id).parent_id
          IN parent_id # None => HasFile(parent_id)

\* C27: at every point of a run processed_notes is the key set of
\* created_files, an id is in it exactly when the write of its file has
\* succeeded, each entry's filepath is the output directory joined with the
\* entry's basename and ".md", and notes whose content generation or write
\* failed are never in it.
C27_MemoConsistency ==
    /\ processed_notes = DOMAIN created_files
    /\ processed_notes =
          {events[k].id : k \in {k \in 1..Len(events) :
                                     events[k].kind = "write" /\ events[k].ok}}
    /\ processed_notes \cap (FailedGenerations \cup FailedWrites) = {}
    /\ \A id \in DOMAIN created_files :
          /\ created_files[id].ok
          /\ created_files[id].filepath =
                OutputDir \o <<"/">> \o created_files[id].basename \o <<".", "m", "d">>

\* a run, still going on, with memo entries and with a failed generation
\* and a failed write behind it
C27_Witness ==
    /\ pc = "creating"
    /\ Cardinality(processed_notes) > 1
    /\ FailedGenerations # {}
    /\ FailedWrites # {}

\* C30: content is generated top-down and files are written bottom-up: the
\* content generation of a non-root note is called only after its parent's
\* content generation succeeded and before its parent's file is written.
\* Stated of the calls of an ended run.
C30_GenerateDownWriteUp ==
    (RunEnded /\ plan_ok)
    => \A k \in 1..Len(events) :
          LET parent_id == NoteOf(research_plan, events[k].id).parent_id
          IN (events[k].kind = "gen" /\ parent_id # None)
             => /\ \E j \in 1..(k - 1) :
                      /\ events[j].kind = "gen" /\ events[j].ok
                      /\ events[j].id = parent_id
                /\ \A j \in 1..(k - 1) :
                      ~(events[j].kind = "write" /\ events[j].id = parent_id)
                /\ \E j \in (k + 1)..Len(events) :
                      events[j].kind = "write" /\ events[j].id = parent_id

\* a successful run in which a note at level 3 was generated and written
C30_Witness ==
    /\ pc = "done"
    /\ \E i \in 1..Len(research_plan) :
          /\ research_plan[i].level = 3
          /\ GenSucceeded(research_plan[i].id)
          /\ WriteSucceeded(research_plan[i].id)
          /\ WriteSucceeded(research_plan[i].parent_id)

--------------------------------------------------------------------------
(* C28, C29: generate_hierarchical_notes on any plan with a root *)

\* C28: creating the notes terminates for every plan with at least one
\* root, validated or not (plans with missing parents or with parent cycles
\* among non-root notes included) and for every outcome of the content
\* generations and writes, after at most one content generation per note.
C28_TerminatesWithOneCallPerNote ==
    /\ <>(pc = "returned")
    /\ [](\A id \in PlanIds : Cardinality(Calls("gen", id)) <= 1)

\* a call that returned, after some work, on a plan with a parent cycle
\* among its non-root notes
C28_Witness ==
    /\ pc = "returned"
    /\ Len(events) > 2
    /\ \E i, j \in 1..Len(research_plan) :
          /\ research_plan[i].parent_id = research_plan[j].id
          /\ research_plan[j].parent_id = research_plan[i].id

\* C29: only notes that can be reached from the selected root through
\* parent_id ever have content generated or a file written; a note whose
\* parent_id names no note of the plan given to generate_hierarchical_notes
\* is skipped with a warning, is never generated or written, and does not
\* make the run fail.
C29_OnlyReachableNotes ==
    LET notes == NotesById(research_plan)
        missing == SeqToSet(Ids(MissingParent(research_plan)))
        roots == RootNotes(research_plan)
        reached == {events[k].id : k \in 1..Len(events)}
                       \cup {files[p].id : p \in DOMAIN files}
                       \cup DOMAIN created_files
    IN /\ reached # {} => roots # <<>>
       /\ \A id \in reached :
             /\ id \notin missing
             /\ id = roots[1].id \/ roots[1].id \in AncestorIds(notes, id, Len(notes))
       /\ (pc # "planned" /\ missing # {}) => "missing_parent" \in warnings
       /\ (pc = "returned" /\ roots # <<>> /\ faults = 0)
          => root_file_info.ok /\ result_path = root_file_info.filepath

\* a call that returned the root's path on a plan in which a note with a
\* child of its own has a parent_id that names no note
C29_Witness ==
    /\ pc = "returned"
    /\ result_path # <<>>
    /\ Len(events) > 2
    /\ \E i, j \in 1..Len(research_plan) :
          /\ research_plan[i].parent_id \notin PlanIds \cup {None}
          /\ research_plan[j].parent_id = research_plan[i].id

==========================================================================
